---- MODULE Spec2Model ----
(***************************************************************************)
(* Model of file_sync (src/lib.rs): FileSync<T> binds an in-memory value   *)
(* of type T to an open file holding its JSON serialization.               *)
(*                                                                         *)
(* T is instantiated as Vec<u8> (a JSON array of small numbers): its       *)
(* compact and pretty encodings differ, and values have different encoded  *)
(* lengths.  A file is a sequence of bytes, each byte a one-character      *)
(* string; NUL stands for the zero byte the OS fills a gap with.           *)
(***************************************************************************)
EXTENDS Integers, Sequences, FiniteSets, TLC

\* ------------------------------------------------------------------ bounds
\* the longest value of T, its largest element, and the most bytes a failing
\* write gets onto the file
MaxLen == 1
MaxElem == 1
MaxWritten == 2

Elems == 1..MaxElem

RECURSIVE SeqsUpTo(_)
SeqsUpTo(n) ==
    IF n = 0 THEN {<<>>}
    ELSE LET S == SeqsUpTo(n - 1)
         IN  S \cup {Append(s, e) : s \in {t \in S : Len(t) = n - 1}, e \in Elems}

\* the values of T the model draws from
Values == SeqsUpTo(MaxLen)

Path == "state.json"
Paths == {Path}

NUL == "NUL"
Whitespace == {" ", "\n", "\t", "\r"}

\* ------------------------------------------------- serde_json: encoding
DigitChar(d) ==
    CASE d = 0 -> "0" [] d = 1 -> "1" [] d = 2 -> "2" [] d = 3 -> "3"
      [] d = 4 -> "4" [] d = 5 -> "5" [] d = 6 -> "6" [] d = 7 -> "7"
      [] d = 8 -> "8" [] d = 9 -> "9"

RECURSIVE Digits(_)
\* decimal digits of a u8, most significant first
Digits(n) == IF n < 10 THEN <<DigitChar(n)>>
             ELSE Append(Digits(n \div 10), DigitChar(n % 10))

RECURSIVE CompactItems(_, _)
CompactItems(v, i) ==
    IF i > Len(v) THEN <<>>
    ELSE (IF i = 1 THEN <<>> ELSE <<",">>) \o Digits(v[i]) \o CompactItems(v, i + 1)

\* serde_json::to_writer with the CompactFormatter
to_writer(v) == <<"[">> \o CompactItems(v, 1) \o <<"]">>

RECURSIVE PrettyItems(_, _)
PrettyItems(v, i) ==
    IF i > Len(v) THEN <<>>
    ELSE (IF i = 1 THEN <<"\n">> ELSE <<",", "\n">>) \o <<" ", " ">>
         \o Digits(v[i]) \o PrettyItems(v, i + 1)

\* serde_json::to_writer_pretty with the PrettyFormatter (indent of two spaces)
to_writer_pretty(v) ==
    <<"[">> \o PrettyItems(v, 1) \o (IF Len(v) > 0 THEN <<"\n">> ELSE <<>>) \o <<"]">>

Serialize(v, pretty) == IF pretty THEN to_writer_pretty(v) ELSE to_writer(v)

\* ------------------------------------------------- serde_json: decoding
DigitVal(c) ==
    CASE c = "0" -> 0 [] c = "1" -> 1 [] c = "2" -> 2 [] c = "3" -> 3
      [] c = "4" -> 4 [] c = "5" -> 5 [] c = "6" -> 6 [] c = "7" -> 7
      [] c = "8" -> 8 [] c = "9" -> 9

IsDigit(c) == c \in {"0", "1", "2", "3", "4", "5", "6", "7", "8", "9"}

ParseErr == [ok |-> FALSE, value |-> <<>>]

\* variant: the decoder does not skip whitespace
parse_whitespace_None(b, i) == i

RECURSIVE parse_whitespace(_, _)
\* index of the first byte at or after i that is not whitespace
parse_whitespace(b, i) ==
    IF i <= Len(b) /\ b[i] \in Whitespace THEN parse_whitespace(b, i + 1) ELSE i

RECURSIVE ParseDigits(_, _, _)
\* accumulates the digits starting at i; next is the index after the number
ParseDigits(b, i, acc) ==
    IF i <= Len(b) /\ IsDigit(b[i])
    THEN ParseDigits(b, i + 1, acc * 10 + DigitVal(b[i]))
    ELSE [val |-> acc, next |-> i]

\* a u8: no leading zero, no sign, no fraction, at most 255
ParseNumber(b, i) ==
    IF i > Len(b) \/ ~IsDigit(b[i]) THEN [ok |-> FALSE, val |-> 0, next |-> i]
    ELSE IF b[i] = "0"
         THEN [ok |-> ~(i + 1 <= Len(b) /\ IsDigit(b[i + 1])), val |-> 0, next |-> i + 1]
         ELSE LET r == ParseDigits(b, i, 0)
              IN  [ok |-> r.val <= 255, val |-> r.val, next |-> r.next]

RECURSIVE ParseElements(_, _, _, _)
\* SeqAccess::next_element_seed, repeated until the closing bracket;
\* a successful parse continues with Deserializer::end (only whitespace left)
ParseElements(b, i, acc, first) ==
    LET j == parse_whitespace(b, i)
    IN  IF j > Len(b) THEN ParseErr
        ELSE IF b[j] = "]"
             THEN (IF parse_whitespace(b, j + 1) > Len(b)
                   THEN [ok |-> TRUE, value |-> acc] ELSE ParseErr)
        ELSE LET k == IF first THEN j
                      ELSE IF b[j] = "," THEN parse_whitespace(b, j + 1) ELSE 0
                 n == ParseNumber(b, k)
             IN  IF k = 0 \/ ~n.ok THEN ParseErr
                 ELSE ParseElements(b, n.next, Append(acc, n.val), FALSE)

\* serde_json::from_reader::<Vec<u8>>: the whole input is one JSON document
from_reader(b) ==
    LET j == parse_whitespace(b, 1)
    IN  IF j > Len(b) \/ b[j] # "[" THEN ParseErr
        ELSE ParseElements(b, j + 1, <<>>, TRUE)

\* ------------------------------------------------------- the filesystem
\* fs is the file at Path; obj is the one FileSync object (its File handle
\* is the cursor); call records the last public call.  obj2 is a second
\* FileSync object over the same path and pending is a constructor call that
\* has checked the path and not opened it yet: both stay idle except in the
\* specifications that interleave a second owner or an external process
VARIABLES fs, obj, call, run, failedBefore, obj2, pending

vars == <<fs, obj, call, run, failedBefore, obj2, pending>>

NoFile == [exists |-> FALSE, bytes |-> <<>>]
FileOf(b) == [exists |-> TRUE, bytes |-> b]

NoObj == [alive |-> FALSE, data |-> <<>>, cursor |-> 0, pretty |-> FALSE]
FileSync(data, cursor, pretty) ==
    [alive |-> TRUE, data |-> data, cursor |-> cursor, pretty |-> pretty]

\* Result<_, FileSyncError>: tag is Ok or the variant, detail is the path of
\* FileAlreadyExists or the ClearFileError variant
Ok == [tag |-> "Ok", detail |-> ""]
FileAlreadyExists(fp) == [tag |-> "FileAlreadyExists", detail |-> fp]
IoError == [tag |-> "IoError", detail |-> ""]
SerdeJsonError == [tag |-> "SerdeJsonError", detail |-> ""]
ClearFileError(e) == [tag |-> "ClearFileError", detail |-> e]

\* an injected failure of one OS step; k is the number of bytes a failing
\* write got onto the file before the error
NoFault == [at |-> "none", k |-> 0]
OpenFault == [at |-> "open", k |-> 0]
SetLenFault == [at |-> "set_len", k |-> 0]
SeekFault == [at |-> "seek", k |-> 0]
WriteFault(k) == [at |-> "write", k |-> k]

RECURSIVE Zeros(_)
Zeros(n) == IF n <= 0 THEN <<>> ELSE Append(Zeros(n - 1), NUL)

\* write(2) at the cursor: a cursor past the end leaves a gap of zero bytes,
\* bytes under the written range are overwritten, bytes after it are kept
WriteAt(bytes, cursor, out) ==
    LET padded == IF cursor > Len(bytes) THEN bytes \o Zeros(cursor - Len(bytes)) ELSE bytes
        last == cursor + Len(out)
    IN  SubSeq(padded, 1, cursor) \o out
        \o (IF last < Len(padded) THEN SubSeq(padded, last + 1, Len(padded)) ELSE <<>>)

\* variant: write encodes in compact mode whatever the pretty flag says
write_IgnoresPretty(bytes, cursor, value, pretty, fault) ==
    LET s == to_writer(value)
        n == IF fault.at = "write" THEN IF fault.k < Len(s) THEN fault.k ELSE Len(s)
             ELSE Len(s)
    IN  [ok |-> fault.at # "write",
         bytes |-> WriteAt(bytes, cursor, SubSeq(s, 1, n)),
         cursor |-> cursor + n]

\* fn write: encodes value onto the file at the cursor; a failure stops the
\* encoder after fault.k bytes
write(bytes, cursor, value, pretty, fault) ==
    LET s == IF pretty THEN to_writer_pretty(value) ELSE to_writer(value)
        n == IF fault.at = "write" THEN fault.k ELSE Len(s)
    IN  [ok |-> fault.at # "write",
         bytes |-> WriteAt(bytes, cursor, SubSeq(s, 1, n)),
         cursor |-> cursor + n]

\* variant: clear_file truncates but leaves the cursor where it was
clear_file_NoSeek(bytes, cursor, fault) ==
    IF fault.at = "set_len"
    THEN [res |-> ClearFileError("SetLenError"), bytes |-> bytes, cursor |-> cursor,
          steps |-> <<"set_len">>]
    ELSE [res |-> Ok, bytes |-> <<>>, cursor |-> cursor, steps |-> <<"set_len">>]

\* variant: clear_file rewinds the cursor but does not truncate
clear_file_NoTruncate(bytes, cursor, fault) ==
    IF fault.at = "seek"
    THEN [res |-> ClearFileError("SeekError"), bytes |-> bytes, cursor |-> cursor,
          steps |-> <<"seek">>]
    ELSE [res |-> Ok, bytes |-> bytes, cursor |-> 0, steps |-> <<"seek">>]

\* variant: clear_file reports its failures as plain I/O errors
clear_file_IoError(bytes, cursor, fault) ==
    IF fault.at = "set_len"
    THEN [res |-> IoError, bytes |-> bytes, cursor |-> cursor, steps |-> <<"set_len">>]
    ELSE IF fault.at = "seek"
    THEN [res |-> IoError, bytes |-> <<>>, cursor |-> cursor,
          steps |-> <<"set_len", "seek">>]
    ELSE [res |-> Ok, bytes |-> <<>>, cursor |-> 0, steps |-> <<"set_len", "seek">>]

\* variant: clear_file rewinds the cursor before it truncates
clear_file_SeekFirst(bytes, cursor, fault) ==
    IF fault.at = "seek"
    THEN [res |-> ClearFileError("SeekError"), bytes |-> bytes, cursor |-> cursor,
          steps |-> <<"seek">>]
    ELSE IF fault.at = "set_len"
    THEN [res |-> ClearFileError("SetLenError"), bytes |-> bytes, cursor |-> 0,
          steps |-> <<"seek", "set_len">>]
    ELSE [res |-> Ok, bytes |-> <<>>, cursor |-> 0, steps |-> <<"seek", "set_len">>]

\* fn clear_file: set_len(0), then seek(SeekFrom::Start(0))
clear_file(bytes, cursor, fault) ==
    IF fault.at = "set_len"
    THEN [res |-> ClearFileError("SetLenError"), bytes |-> bytes, cursor |-> cursor,
          steps |-> <<"set_len">>]
    ELSE IF fault.at = "seek"
    THEN [res |-> ClearFileError("SeekError"), bytes |-> <<>>, cursor |-> cursor,
          steps |-> <<"set_len", "seek">>]
    ELSE [res |-> Ok, bytes |-> <<>>, cursor |-> 0, steps |-> <<"set_len", "seek">>]

\* the faults a write of value can suffer: it stops before the last byte
WriteFaults(value, pretty) ==
    {WriteFault(k) : k \in {j \in 0..MaxWritten : j < Len(Serialize(value, pretty))}}

\* the faults of each call
NewFaults(file, value, pretty) ==
    IF file.exists THEN {NoFault} ELSE {NoFault, OpenFault} \cup WriteFaults(value, pretty)
LoadFaults(file) == IF file.exists THEN {NoFault, OpenFault} ELSE {NoFault}
MutationFaults(value, pretty) ==
    {NoFault, SetLenFault, SeekFault} \cup WriteFaults(value, pretty)

\* the FnOnce(&mut T) closures the model passes to modify
Mutators == {[kind |-> "push", x |-> e] : e \in Elems}
            \cup {[kind |-> "pop", x |-> 0], [kind |-> "clear", x |-> 0],
                  [kind |-> "noop", x |-> 0]}

\* the value f leaves behind in *data
Apply(f, data) ==
    CASE f.kind = "push" -> Append(data, f.x)
      [] f.kind = "pop" -> IF Len(data) = 0 THEN data ELSE SubSeq(data, 1, Len(data) - 1)
      [] f.kind = "clear" -> <<>>
      [] f.kind = "noop" -> data

\* the files that may already be at Path before the program starts
InitialFiles == {NoFile, FileOf(<<>>), FileOf(<<"[", "1", "]", "\n">>)}

\* what a call leaves behind: its result, the file, the object (the one
\* returned by a constructor, or self after a method) and the steps it
\* performed in order
Outcome(res, file, o, steps) == [res |-> res, fs |-> file, obj |-> o, steps |-> steps]

\* variant: new opens the path without checking that it is free
new_NoGuard(file, fp, data, pretty, fault) ==
    IF fault.at = "open"
    THEN Outcome(IoError, file, NoObj, <<"open">>)
    ELSE LET w == write(<<>>, 0, data, pretty, fault)
         IN  Outcome(IF w.ok THEN Ok ELSE SerdeJsonError, FileOf(w.bytes),
                     IF w.ok THEN FileSync(data, w.cursor, pretty) ELSE NoObj,
                     <<"open", "write">>)

\* variant: the open in new creates the file but leaves an existing one as
\* it is
open_NoTruncate(file) == IF file.exists THEN file ELSE FileOf(<<>>)

\* OpenOptions::new().write(true).read(true).create(true).truncate(true)
\* .open(fp): the file is there and empty afterwards, whatever was at the path
open(file) == FileOf(<<>>)

\* the steps of new after its existence check: the open, then the write
new_opened(file, fp, data, pretty, fault) ==
    IF fault.at = "open"
    THEN Outcome(IoError, file, NoObj, <<"open">>)
    ELSE LET w == write(open(file).bytes, 0, data, pretty, fault)
         IN  Outcome(IF w.ok THEN Ok ELSE SerdeJsonError, FileOf(w.bytes),
                     IF w.ok THEN FileSync(data, w.cursor, pretty) ELSE NoObj,
                     <<"open", "write">>)

\* variant: new removes the file it created when the write fails
new_Cleanup(file, fp, data, pretty, fault) ==
    IF file.exists
    THEN Outcome(FileAlreadyExists(fp), file, NoObj, <<"exists">>)
    ELSE LET r == new_opened(file, fp, data, pretty, fault)
         IN  Outcome(r.res, IF r.res = SerdeJsonError THEN NoFile ELSE r.fs, r.obj,
                     <<"exists">> \o r.steps)

\* pub fn new(fp, data, pretty)
new(file, fp, data, pretty, fault) ==
    IF file.exists
    THEN Outcome(FileAlreadyExists(fp), file, NoObj, <<"exists">>)
    ELSE LET r == new_opened(file, fp, data, pretty, fault)
         IN  Outcome(r.res, r.fs, r.obj, <<"exists">> \o r.steps)

\* pub fn load(fp, pretty)
load(file, fp, pretty, fault) ==
    IF ~file.exists \/ fault.at = "open"
    THEN Outcome(IoError, file, NoObj, <<"open">>)
    ELSE LET d == from_reader(file.bytes)
         IN  Outcome(IF d.ok THEN Ok ELSE SerdeJsonError, file,
                     IF d.ok THEN FileSync(d.value, Len(file.bytes), pretty) ELSE NoObj,
                     <<"open", "read">>)

\* variant: load_or_new takes the wrong branch
load_or_new_Inverted(file, fp, data, pretty, fault) ==
    LET r == IF ~file.exists THEN load(file, fp, pretty, fault)
             ELSE new(file, fp, data, pretty, fault)
    IN  Outcome(r.res, r.fs, r.obj, <<"exists">> \o r.steps)

\* pub fn load_or_new(fp, data, pretty)
load_or_new(file, fp, data, pretty, fault) ==
    LET r == IF file.exists THEN load(file, fp, pretty, fault)
             ELSE new(file, fp, data, pretty, fault)
    IN  Outcome(r.res, r.fs, r.obj, <<"exists">> \o r.steps)

\* variant: set stores the new value before it clears and writes the file
set_AssignFirst(file, self, data, fault) ==
    LET stored == [self EXCEPT !.data = data]
        c == clear_file(file.bytes, self.cursor, fault)
    IN  IF c.res # Ok
        THEN Outcome(c.res, FileOf(c.bytes), [stored EXCEPT !.cursor = c.cursor],
                     <<"assign">> \o c.steps)
        ELSE LET w == write(c.bytes, c.cursor, data, self.pretty, fault)
             IN  Outcome(IF w.ok THEN Ok ELSE SerdeJsonError, FileOf(w.bytes),
                         [stored EXCEPT !.cursor = w.cursor],
                         <<"assign">> \o c.steps \o <<"write">>)

\* variant: set writes the file but never stores the new value
set_NoAssign(file, self, data, fault) ==
    LET c == clear_file(file.bytes, self.cursor, fault)
    IN  IF c.res # Ok
        THEN Outcome(c.res, FileOf(c.bytes), [self EXCEPT !.cursor = c.cursor], c.steps)
        ELSE LET w == write(c.bytes, c.cursor, data, self.pretty, fault)
             IN  Outcome(IF w.ok THEN Ok ELSE SerdeJsonError, FileOf(w.bytes),
                         [self EXCEPT !.cursor = w.cursor], c.steps \o <<"write">>)

\* pub fn set(&mut self, data)
set(file, self, data, fault) ==
    LET c == clear_file(file.bytes, self.cursor, fault)
    IN  IF c.res # Ok
        THEN Outcome(c.res, FileOf(c.bytes), [self EXCEPT !.cursor = c.cursor], c.steps)
        ELSE LET w == write(c.bytes, c.cursor, data, self.pretty, fault)
             IN  IF ~w.ok
                 THEN Outcome(SerdeJsonError, FileOf(w.bytes),
                              [self EXCEPT !.cursor = w.cursor], c.steps \o <<"write">>)
                 ELSE Outcome(Ok, FileOf(w.bytes),
                              [self EXCEPT !.cursor = w.cursor, !.data = data],
                              c.steps \o <<"write", "assign">>)

\* pub fn get(&self)
get(self) == self.data

\* impl Deref: fn deref(&self)
deref(self) == get(self)

\* impl AsRef<T>: fn as_ref(&self)
as_ref(self) == get(self)

\* variant: modify puts the old value back when the clear or the write fails
modify_Rollback(file, self, f, fault) ==
    LET mutated == [self EXCEPT !.data = Apply(f, self.data)]
        c == clear_file(file.bytes, mutated.cursor, fault)
    IN  IF c.res # Ok
        THEN Outcome(c.res, FileOf(c.bytes), [self EXCEPT !.cursor = c.cursor],
                     <<"f">> \o c.steps)
        ELSE LET w == write(c.bytes, c.cursor, mutated.data, mutated.pretty, fault)
             IN  Outcome(IF w.ok THEN Ok ELSE SerdeJsonError, FileOf(w.bytes),
                         [(IF w.ok THEN mutated ELSE self) EXCEPT !.cursor = w.cursor],
                         <<"f">> \o c.steps \o <<"write">>)

\* variant: modify clears the file first and calls f only once that succeeded
modify_ClearFirst(file, self, f, fault) ==
    LET c == clear_file(file.bytes, self.cursor, fault)
    IN  IF c.res # Ok
        THEN Outcome(c.res, FileOf(c.bytes), [self EXCEPT !.cursor = c.cursor], c.steps)
        ELSE LET mutated == [self EXCEPT !.data = Apply(f, self.data)]
                 w == write(c.bytes, c.cursor, mutated.data, mutated.pretty, fault)
             IN  Outcome(IF w.ok THEN Ok ELSE SerdeJsonError, FileOf(w.bytes),
                         [mutated EXCEPT !.cursor = w.cursor],
                         c.steps \o <<"f", "write">>)

\* variant: modify writes the value it had before f ran
modify_WriteOld(file, self, f, fault) ==
    LET mutated == [self EXCEPT !.data = Apply(f, self.data)]
        c == clear_file(file.bytes, mutated.cursor, fault)
    IN  IF c.res # Ok
        THEN Outcome(c.res, FileOf(c.bytes), [mutated EXCEPT !.cursor = c.cursor],
                     <<"f">> \o c.steps)
        ELSE LET w == write(c.bytes, c.cursor, self.data, mutated.pretty,
                            IF fault.at = "write" /\ fault.k >= Len(Serialize(self.data, self.pretty))
                            THEN WriteFault(0) ELSE fault)
             IN  Outcome(IF w.ok THEN Ok ELSE SerdeJsonError, FileOf(w.bytes),
                         [mutated EXCEPT !.cursor = w.cursor],
                         <<"f">> \o c.steps \o <<"write">>)

\* pub fn modify(&mut self, f)
modify(file, self, f, fault) ==
    LET mutated == [self EXCEPT !.data = Apply(f, self.data)]
        c == clear_file(file.bytes, mutated.cursor, fault)
    IN  IF c.res # Ok
        THEN Outcome(c.res, FileOf(c.bytes), [mutated EXCEPT !.cursor = c.cursor],
                     <<"f">> \o c.steps)
        ELSE LET w == write(c.bytes, c.cursor, mutated.data, mutated.pretty, fault)
             IN  Outcome(IF w.ok THEN Ok ELSE SerdeJsonError, FileOf(w.bytes),
                         [mutated EXCEPT !.cursor = w.cursor],
                         <<"f">> \o c.steps \o <<"write">>)

\* ------------------------------------------------------------ the calls
Decoded(v) == [ok |-> TRUE, value |-> v]

\* the Synced state: the file's full contents decode to the in-memory data
Synced == obj.alive /\ from_reader(fs.bytes) = Decoded(obj.data)
\* the Diverged state
Diverged == obj.alive /\ ~Synced

\* the record of the last public call: its argument, the result, the steps
\* it performed, and whether the object was Synced when the call began
NoArg == [kind |-> "none", x |-> 0, v |-> <<>>]
ValArg(v) == [kind |-> "value", x |-> 0, v |-> v]
FnArg(f) == [kind |-> f.kind, x |-> f.x, v |-> <<>>]

Call(op, arg, r) ==
    [op |-> op, arg |-> arg, res |-> r.res, steps |-> r.steps, wasSynced |-> Synced]

\* the step whose failure a result reports
FailedAt(res) ==
    CASE res = Ok -> "none"
      [] res = IoError -> "open"
      [] res = ClearFileError("SetLenError") -> "set_len"
      [] res = ClearFileError("SeekError") -> "seek"
      [] res = SerdeJsonError -> "serde"
      [] OTHER -> "exists"

\* run is the history the file went through since its object was constructed:
\* "live" while every mutating call so far was a successful set (last is the
\* value of the latest one, or the constructed value; sets counts them, 2
\* standing for two or more; byNew tells that new constructed the object),
\* "reloaded" once such an object was dropped and load succeeded on the file,
\* "broken" after a failed set or any modify
NoRun == [state |-> "none", last |-> <<>>, sets |-> 0, byNew |-> FALSE]
BrokenRun == [state |-> "broken", last |-> <<>>, sets |-> 0, byNew |-> FALSE]
LiveRun(v, n, byNew) == [state |-> "live", last |-> v, sets |-> n, byNew |-> byNew]
Unbroken(r) == r.state \in {"live", "reloaded"}

\* a constructor call in progress: pc is the step it makes next ("new_exists"
\* the existence check of the new that load_or_new calls, "new_open" the open
\* of new, "load_open" the open of load), op the call the caller made, v and
\* pretty its arguments, steps the steps made so far; meddled tells what an
\* external process last did to the path since the call began, and lost is
\* what the file held when the open of new truncated it.  Idle: no call is
\* in progress
Idle == [pc |-> "idle", op |-> "none", v |-> <<>>, pretty |-> FALSE,
         steps |-> <<>>, meddled |-> "none", lost |-> <<>>]
InProgress(pc, op, v, pretty, steps) ==
    [pc |-> pc, op |-> op, v |-> v, pretty |-> pretty, steps |-> steps,
     meddled |-> "none", lost |-> <<>>]

Init ==
    /\ fs \in InitialFiles
    /\ obj = NoObj
    /\ call = [op |-> "init", arg |-> NoArg, res |-> Ok, steps |-> <<>>,
               wasSynced |-> FALSE]
    /\ run = NoRun
    /\ failedBefore = FALSE
    /\ obj2 = NoObj
    /\ pending = Idle

\* a constructor's outcome: the returned object, if any, becomes the object
Constructed(op, arg, r) ==
    /\ fs' = r.fs
    /\ obj' = IF r.res = Ok THEN r.obj ELSE obj
    /\ run' = IF r.res # Ok THEN run
              ELSE IF op = "load" /\ Unbroken(run) THEN [run EXCEPT !.state = "reloaded"]
              ELSE LiveRun(r.obj.data, 0, op = "new")
    /\ failedBefore' = IF r.res = Ok THEN FALSE ELSE failedBefore
    /\ call' = Call(op, arg, r)
    /\ UNCHANGED <<obj2, pending>>

\* FileSync::new(fp, data, pretty); it may be called while the object is
\* alive (the path then exists)
CallNew(fp, data, pretty, fault) ==
    /\ fault \in NewFaults(fs, data, pretty)
    /\ Constructed("new", ValArg(data), new(fs, fp, data, pretty, fault))

\* FileSync::load(fp, pretty), called when no object holds the file
CallLoad(fp, pretty, fault) ==
    /\ ~obj.alive
    /\ fault \in LoadFaults(fs)
    /\ Constructed("load", NoArg, load(fs, fp, pretty, fault))

\* FileSync::load_or_new(fp, data, pretty), called when no object holds the file
CallLoadOrNew(fp, data, pretty, fault) ==
    /\ ~obj.alive
    /\ fault \in (IF fs.exists THEN LoadFaults(fs) ELSE NewFaults(fs, data, pretty))
    /\ Constructed("load_or_new", ValArg(data),
                   load_or_new(fs, fp, data, pretty, fault))

\* obj.set(data)
CallSet(data, fault) ==
    /\ obj.alive
    /\ fault \in MutationFaults(data, obj.pretty)
    /\ LET r == set(fs, obj, data, fault)
       IN  /\ fs' = r.fs
           /\ obj' = r.obj
           /\ run' = IF r.res = Ok /\ Unbroken(run)
                     THEN LiveRun(data, IF run.sets = 0 THEN 1 ELSE 2, run.byNew)
                     ELSE BrokenRun
           /\ failedBefore' = (failedBefore \/ r.res # Ok)
           /\ call' = Call("set", ValArg(data), r)
    /\ UNCHANGED <<obj2, pending>>

\* obj.modify(f)
CallModify(f, fault) ==
    /\ obj.alive
    /\ Len(Apply(f, obj.data)) <= MaxLen
    /\ fault \in MutationFaults(Apply(f, obj.data), obj.pretty)
    /\ LET r == modify(fs, obj, f, fault)
       IN  /\ fs' = r.fs
           /\ obj' = r.obj
           /\ run' = BrokenRun
           /\ failedBefore' = (failedBefore \/ r.res # Ok)
           /\ call' = Call("modify", FnArg(f), r)
    /\ UNCHANGED <<obj2, pending>>

\* variant: get rewinds the file handle
CallGet_Rewind ==
    /\ obj.alive
    /\ call' = Call("get", ValArg(get(obj)), Outcome(Ok, fs, obj, <<>>))
    /\ obj' = [obj EXCEPT !.cursor = 0]
    /\ UNCHANGED <<fs, run, failedBefore, obj2, pending>>

\* obj.get(): the value read is call'.arg.v
CallGet ==
    /\ obj.alive
    /\ call' = Call("get", ValArg(get(obj)), Outcome(Ok, fs, obj, <<>>))
    /\ UNCHANGED <<fs, obj, run, failedBefore, obj2, pending>>

\* *obj and obj.as_ref()
CallAccessor(via) ==
    /\ obj.alive
    /\ call' = Call(via, ValArg(IF via = "deref" THEN deref(obj) ELSE as_ref(obj)),
                    Outcome(Ok, fs, obj, <<>>))
    /\ UNCHANGED <<fs, obj, run, failedBefore, obj2, pending>>

\* obj.pretty = b
SetPretty(b) ==
    /\ obj.alive
    /\ obj' = [obj EXCEPT !.pretty = b]
    /\ call' = Call("pretty", NoArg, Outcome(Ok, fs, obj, <<>>))
    /\ UNCHANGED <<fs, run, failedBefore, obj2, pending>>

\* the object goes out of scope: the File is closed
Drop ==
    /\ obj.alive
    /\ obj' = NoObj
    /\ call' = Call("drop", NoArg, Outcome(Ok, fs, obj, <<>>))
    /\ UNCHANGED <<fs, run, failedBefore, obj2, pending>>

Next ==
    \/ \E v \in Values, p \in BOOLEAN :
          \E ft \in NewFaults(fs, v, p) : CallNew(Path, v, p, ft)
    \/ \E p \in BOOLEAN : \E ft \in LoadFaults(fs) : CallLoad(Path, p, ft)
    \/ \E v \in Values, p \in BOOLEAN :
          \E ft \in (IF fs.exists THEN LoadFaults(fs) ELSE NewFaults(fs, v, p)) :
             CallLoadOrNew(Path, v, p, ft)
    \/ \E v \in Values : \E ft \in MutationFaults(v, obj.pretty) : CallSet(v, ft)
    \/ \E f \in Mutators :
          \E ft \in MutationFaults(Apply(f, obj.data), obj.pretty) : CallModify(f, ft)
    \/ CallGet
    \/ \E via \in {"deref", "as_ref"} : CallAccessor(via)
    \/ \E b \in BOOLEAN : SetPretty(b)
    \/ Drop

Spec == Init /\ [][Next]_vars

\* ------------------------------------------------------------------------
\* The constructors step by step, beside an external process that creates
\* and deletes the path while no object holds the file.

\* a constructor returns r after the steps in pending
Returns(r, lost) ==
    /\ fs' = r.fs
    /\ obj' = IF r.res = Ok THEN r.obj ELSE obj
    /\ call' = Call(pending.op, ValArg(pending.v),
                    Outcome(r.res, r.fs, r.obj, pending.steps \o r.steps))
    /\ pending' = [pending EXCEPT !.pc = "idle", !.lost = lost]
    /\ UNCHANGED <<run, failedBefore, obj2>>

\* new(fp, data, pretty) up to its fp.exists()
NewExists(fp, data, pretty) ==
    /\ pending.pc = "idle" /\ ~obj.alive
    /\ IF fs.exists
       THEN /\ call' = Call("new", ValArg(data), new(fs, fp, data, pretty, NoFault))
            /\ pending' = Idle
       ELSE /\ pending' = InProgress("new_open", "new", data, pretty, <<"exists">>)
            /\ call' = call
    /\ UNCHANGED <<fs, obj, run, failedBefore, obj2>>

\* load_or_new(fp, data, pretty) up to its fp.exists()
LoadOrNewExists(fp, data, pretty) ==
    /\ pending.pc = "idle" /\ ~obj.alive
    /\ pending' = InProgress(IF fs.exists THEN "load_open" ELSE "new_exists",
                             "load_or_new", data, pretty, <<"exists">>)
    /\ UNCHANGED <<fs, obj, call, run, failedBefore, obj2>>

\* the fp.exists() of the new that load_or_new called
NewExistsInner ==
    /\ pending.pc = "new_exists"
    /\ IF fs.exists
       THEN Returns(new(fs, Path, pending.v, pending.pretty, NoFault), <<>>)
       ELSE /\ pending' = [pending EXCEPT !.pc = "new_open",
                                          !.steps = @ \o <<"exists">>]
            /\ UNCHANGED <<fs, obj, call, run, failedBefore, obj2>>

\* the open and the write of new
NewOpen(fault) ==
    /\ pending.pc = "new_open"
    /\ Returns(new_opened(fs, Path, pending.v, pending.pretty, fault),
               IF fault.at # "open" THEN fs.bytes ELSE <<>>)

\* the open and the read of load, called by load_or_new
LoadOpen(fault) ==
    /\ pending.pc = "load_open"
    /\ Returns(load(fs, Path, pending.pretty, fault), <<>>)

Meddled(what) ==
    pending' = IF pending.pc = "idle" THEN pending ELSE [pending EXCEPT !.meddled = what]

\* another process creates the file
ExternalCreate(bytes) ==
    /\ ~obj.alive /\ ~fs.exists
    /\ fs' = FileOf(bytes)
    /\ Meddled("created")
    /\ UNCHANGED <<obj, call, run, failedBefore, obj2>>

\* another process deletes the file
ExternalDelete ==
    /\ ~obj.alive /\ fs.exists
    /\ fs' = NoFile
    /\ Meddled("deleted")
    /\ UNCHANGED <<obj, call, run, failedBefore, obj2>>

\* what the external process may put at the path
ExternalFiles == {f.bytes : f \in {g \in InitialFiles : g.exists}}

RaceNext ==
    \/ \E v \in Values, p \in BOOLEAN : NewExists(Path, v, p)
    \/ \E v \in Values, p \in BOOLEAN : LoadOrNewExists(Path, v, p)
    \/ NewExistsInner
    \/ \E ft \in NewFaults(NoFile, pending.v, pending.pretty) : NewOpen(ft)
    \/ \E ft \in LoadFaults(fs) : LoadOpen(ft)
    \/ \E b \in ExternalFiles : ExternalCreate(b)
    \/ ExternalDelete
    \/ Drop

RaceSpec == Init /\ [][RaceNext]_vars

\* ------------------------------------------------------------------------
\* Two FileSync objects over the same path, each with its own File handle
\* and cursor; whole calls interleave, and no call suffers an I/O failure.

\* the record of a call on the second object
Call2(op, arg, r) == [Call(op, arg, r) EXCEPT !.op = "obj2." \o op]

\* obj2 = FileSync::load(fp, pretty)
CallLoad2(fp, pretty) ==
    /\ ~obj2.alive
    /\ LET r == load(fs, fp, pretty, NoFault)
       IN  /\ r.res = Ok
           /\ obj2' = r.obj
           /\ call' = Call2("load", NoArg, r)
    /\ UNCHANGED <<fs, obj, run, failedBefore, pending>>

\* obj2.set(data)
CallSet2(data) ==
    /\ obj2.alive
    /\ LET r == set(fs, obj2, data, NoFault)
       IN  /\ fs' = r.fs
           /\ obj2' = r.obj
           /\ call' = Call2("set", ValArg(data), r)
    /\ UNCHANGED <<obj, run, failedBefore, pending>>

\* obj2.modify(f)
CallModify2(f) ==
    /\ obj2.alive
    /\ Len(Apply(f, obj2.data)) <= MaxLen
    /\ LET r == modify(fs, obj2, f, NoFault)
       IN  /\ fs' = r.fs
           /\ obj2' = r.obj
           /\ call' = Call2("modify", FnArg(f), r)
    /\ UNCHANGED <<obj, run, failedBefore, pending>>

\* the first object is made by new on a free path or by load, the second by
\* load; both live on, each in the mode it was constructed with
TwoNext ==
    \/ \E v \in Values, p \in BOOLEAN : ~fs.exists /\ CallNew(Path, v, p, NoFault)
    \/ \E p \in BOOLEAN : CallLoad(Path, p, NoFault)
    \/ \E v \in Values : CallSet(v, NoFault)
    \/ \E f \in Mutators : CallModify(f, NoFault)
    \/ \E p \in BOOLEAN : CallLoad2(Path, p)
    \/ \E v \in Values : CallSet2(v)
    \/ \E f \in Mutators : CallModify2(f)

TwoSpec == Init /\ [][TwoNext]_vars

\* ------------------------------------------------------------ properties
IsProperPrefix(p, s) == Len(p) < Len(s) /\ p = SubSeq(s, 1, Len(p))

\* the closure a modify call record stands for
FnOf(arg) == [kind |-> arg.kind, x |-> arg.x]

\* the call wrote the file (load_or_new does so in its new branch)
Wrote == "write" \in {call.steps[i] : i \in 1..Len(call.steps)}

Returned(ops) == call.op \in ops /\ call.res = Ok

\* C1 as stated: right after new, load, load_or_new, set or modify returns
\* Ok, the file decodes to data and the file is as long as a serialized form
\* of data (the compact or the pretty one)
C1_AsStated ==
    Returned({"new", "load", "load_or_new", "set", "modify"}) =>
        /\ Synced
        /\ Len(fs.bytes) \in {Len(to_writer(obj.data)), Len(to_writer_pretty(obj.data))}

\* C1 amended: right after any of the five operations returns Ok the file
\* decodes to data; after the ones that write (new, set, modify, load_or_new
\* creating the file) the file is byte for byte the serialization of data in
\* the object's pretty mode, so nothing trails it and no gap leads it
C1_SteadyState ==
    Returned({"new", "load", "load_or_new", "set", "modify"}) =>
        /\ Synced
        /\ Wrote => fs.bytes = Serialize(obj.data, obj.pretty)

\* a successful set of a one-element value on an object that had a failed
\* call before, in pretty mode
C1_Witness ==
    /\ Returned({"set"}) /\ failedBefore
    /\ obj.pretty /\ Len(obj.data) = 1

\* C2: after an object from new or load went through successful sets only
\* and was dropped, load on the path decodes the file and returns the value
\* of the last set
C2_SetThenLoad ==
    /\ (run.state = "reloaded" /\ run.sets >= 1 /\ obj.alive) => get(obj) = run.last
    /\ (call.op = "load" /\ Unbroken(run) /\ run.sets >= 1 /\ fs.exists)
          => call.res \in {Ok, IoError}

\* load just returned the last of two or more sets, a value shorter than the
\* longest one
C2_Witness ==
    /\ Returned({"load"}) /\ run.state = "reloaded" /\ run.sets = 2
    /\ obj.alive /\ Len(obj.data) < MaxLen

\* C3: a successful new(p, v, pretty) returns an object holding v, and load
\* on the file new wrote returns an object holding v, whatever the mode new
\* wrote in and the mode load is given
C3_RoundTrip ==
    /\ Returned({"new"}) =>
          /\ obj.alive /\ get(obj) = call.arg.v
          /\ fs.bytes = Serialize(call.arg.v, obj.pretty)
    /\ (run.state = "reloaded" /\ run.byNew /\ run.sets = 0 /\ obj.alive)
          => get(obj) = run.last
    /\ (call.op = "load" /\ Unbroken(run) /\ run.byNew /\ run.sets = 0)
          => call.res \in {Ok, IoError}

\* load in compact mode just returned a non-empty value that new wrote in
\* pretty mode
C3_Witness ==
    /\ Returned({"load"}) /\ run.state = "reloaded" /\ run.byNew /\ run.sets = 0
    /\ obj.alive /\ ~obj.pretty /\ Len(obj.data) > 0
    /\ fs.bytes = to_writer_pretty(obj.data)

\* C4: new on a path that exists fails with FileAlreadyExists carrying the
\* path, returns no object, and only performs the existence check: the file
\* is unchanged
C4_ExistenceGuard ==
    [][(call'.op = "new" /\ fs.exists) =>
          /\ call'.res = FileAlreadyExists(Path)
          /\ fs' = fs /\ obj' = obj
          /\ call'.steps = <<"exists">>]_vars

\* new was refused on a path holding a non-empty file
C4_Witness ==
    call.op = "new" /\ call.res.tag = "FileAlreadyExists" /\ Len(fs.bytes) > 0

\* C5: a set whose write step fails returns an error, keeps the old data and
\* leaves the file truncated, holding a proper prefix of the new value's
\* serialization; set replaces data exactly when it returns Ok
C5_SetWriteFailure ==
    [][(call'.op = "set") =>
          /\ call'.res = SerdeJsonError =>
                /\ call'.steps = <<"set_len", "seek", "write">>
                /\ get(obj') = get(obj)
                /\ IsProperPrefix(fs'.bytes, Serialize(call'.arg.v, obj.pretty))
          /\ get(obj') = IF call'.res = Ok THEN call'.arg.v ELSE get(obj)
          /\ call'.res = Ok => fs'.bytes = Serialize(call'.arg.v, obj.pretty)]_vars

\* a set of a value other than the data failed in its write step and left a
\* partial write
C5_Witness ==
    /\ call.op = "set" /\ call.res = SerdeJsonError
    /\ obj.data # call.arg.v /\ Len(fs.bytes) > 0

\* C6: a modify that returns an error leaves data mutated, and the file as
\* the failed step left it: untouched (truncate failed), empty (seek failed)
\* or a proper prefix of the mutated value's serialization (write failed)
C6_ModifyFailure ==
    [][(call'.op = "modify" /\ call'.res # Ok) =>
          /\ get(obj') = Apply(FnOf(call'.arg), get(obj))
          /\ FailedAt(call'.res) \in {"set_len", "seek", "serde"}
          /\ FailedAt(call'.res) = "set_len" => fs' = fs
          /\ FailedAt(call'.res) = "seek" => fs'.bytes = <<>>
          /\ FailedAt(call'.res) = "serde" =>
                IsProperPrefix(fs'.bytes, Serialize(get(obj'), obj.pretty))]_vars

\* a push failed at the truncate step: data has the new element, the file
\* still decodes to the value without it
C6_Witness ==
    /\ call.op = "modify" /\ FailedAt(call.res) = "set_len" /\ call.arg.kind = "push"
    /\ obj.alive /\ from_reader(fs.bytes).ok
    /\ Append(from_reader(fs.bytes).value, call.arg.x) = obj.data

\* C7: after modify(f), whatever it returns, get() is f applied to the value
\* get() returned before; f is the first step of the call and runs once
C7_ModifyEquivalence ==
    [][(call'.op = "modify") =>
          /\ get(obj') = Apply(FnOf(call'.arg), get(obj))
          /\ call'.steps[1] = "f"
          /\ Cardinality({i \in 1..Len(call'.steps) : call'.steps[i] = "f"}) = 1
          /\ \A i \in 2..Len(call'.steps) :
                call'.steps[i] \in {"set_len", "seek", "write"}]_vars

\* a pop on a non-empty value went through all its steps
C7_Witness ==
    /\ call.op = "modify" /\ call.arg.kind = "pop" /\ call.res = Ok
    /\ call.steps = <<"f", "set_len", "seek", "write">>
    /\ Len(obj.data) = MaxLen - 1

\* C8: load_or_new on an existing path does what load does (the file is
\* unchanged, the object holds the decoded value, the initial value is
\* dropped), on a missing path what new does, and never returns
\* FileAlreadyExists
C8_LoadOrNewDispatch ==
    [][(call'.op = "load_or_new") =>
          /\ call'.res.tag # "FileAlreadyExists"
          /\ call'.res # Ok => obj' = obj
          /\ fs.exists =>
                /\ fs' = fs
                /\ \E p \in BOOLEAN : \E ft \in LoadFaults(fs) :
                      LET r == load(fs, Path, p, ft)
                      IN  /\ call'.res = r.res
                          /\ call'.steps = <<"exists">> \o r.steps
                          /\ call'.res = Ok => obj' = r.obj
                /\ call'.res = Ok =>
                      /\ from_reader(fs.bytes).ok
                      /\ get(obj') = from_reader(fs.bytes).value
          /\ ~fs.exists =>
                /\ \E p \in BOOLEAN : \E ft \in NewFaults(fs, call'.arg.v, p) :
                      LET r == new(fs, Path, call'.arg.v, p, ft)
                      IN  /\ call'.res = r.res
                          /\ call'.steps = <<"exists">> \o r.steps
                          /\ fs' = r.fs
                          /\ call'.res = Ok => obj' = r.obj
                /\ call'.res = Ok =>
                      /\ get(obj') = call'.arg.v
                      /\ fs'.bytes = Serialize(call'.arg.v, obj'.pretty)]_vars

\* load_or_new took the load branch and returned the file's value, not the
\* initial value it was given
C8_Witness ==
    /\ Returned({"load_or_new"}) /\ call.steps = <<"exists", "open", "read">>
    /\ obj.alive /\ obj.data # call.arg.v

\* C9 as stated: a call on an object that was Diverged when the call began
\* leaves it Diverged
C9_AsStated ==
    (call.op \in {"set", "modify", "get", "pretty"} /\ ~call.wasSynced) => Diverged

\* C9 amended: no call reads the file back, and get, an assignment to pretty
\* and a failed set leave a Diverged object Diverged; but a set or modify
\* that returns Ok has rewritten the whole file from the in-memory data, so
\* the object is Synced again
C9_RepairOnlyByRewrite ==
    /\ call.op \in {"set", "modify", "get", "pretty"} =>
          "read" \notin {call.steps[i] : i \in 1..Len(call.steps)}
    /\ (call.op \in {"get", "pretty"} /\ ~call.wasSynced) => Diverged
    /\ (call.op = "set" /\ call.res # Ok /\ ~call.wasSynced) => Diverged
    /\ (call.op \in {"set", "modify"} /\ call.res = Ok /\ ~call.wasSynced) =>
          Synced /\ fs.bytes = Serialize(obj.data, obj.pretty)

\* a modify returned Ok on an object that was Diverged after a failed call,
\* and the object is Synced
C9_Witness ==
    /\ Returned({"modify"}) /\ failedBefore /\ ~call.wasSynced /\ Synced
    /\ call.arg.kind = "push"

\* C10: on an object that had a failed set or modify, get() returns the
\* in-memory data, and any set or modify whose truncate, seek and write steps
\* all succeed returns Ok and takes effect on the data and on the file
C10_NoPoisoning ==
    (failedBefore /\ obj.alive) =>
        /\ call.op = "get" => call.res = Ok /\ call.arg.v = get(obj)
        /\ \A v \in Values :
              LET r == set(fs, obj, v, NoFault)
              IN  /\ r.res = Ok /\ get(r.obj) = v
                  /\ r.fs.bytes = Serialize(v, obj.pretty)
        /\ \A f \in Mutators :
              LET r == modify(fs, obj, f, NoFault)
              IN  /\ r.res = Ok /\ get(r.obj) = Apply(f, get(obj))
                  /\ r.fs.bytes = Serialize(Apply(f, get(obj)), obj.pretty)
        /\ (call.op \in {"set", "modify"} /\ call.res = Ok) =>
              fs.bytes = Serialize(get(obj), obj.pretty)

\* a set returned Ok after an earlier call on the object had failed, and
\* the value it set is what get() returns
C10_Witness ==
    /\ Returned({"set"}) /\ failedBefore
    /\ get(obj) = call.arg.v /\ Len(call.arg.v) = MaxLen

\* the step a failed call stopped at: the last one it attempted
LastStep == call.steps[Len(call.steps)]
Failed == call.res # Ok /\ Len(call.steps) > 0

\* the steps of a set or modify on the file, in order (f is not one)
FileSteps(steps) == SelectSeq(steps, LAMBDA x : x # "f" /\ x # "assign")
\* no open, truncate or seek is made twice
NoRetry(steps) ==
    \A i, j \in 1..Len(steps) :
        (i # j /\ steps[i] \in {"open", "set_len", "seek"}) => steps[i] # steps[j]

Reads == {"get", "deref", "as_ref"}

\* C11 as stated: a call that fails in its open, truncate or seek step
\* returns the IoError variant
C11_AsStated ==
    (Failed /\ LastStep \in {"open", "set_len", "seek"}) => call.res = IoError

\* C11: a failure of the open step is reported as IoError, and only that is;
\* a failure of the truncate step is reported as ClearFileError wrapping
\* SetLenError and one of the seek step as ClearFileError wrapping SeekError;
\* a call attempts no step twice
C11_ErrorTaxonomy ==
    /\ Failed =>
          /\ LastStep = "open" <=> call.res = IoError
          /\ LastStep = "set_len" <=> call.res = ClearFileError("SetLenError")
          /\ LastStep = "seek" <=> call.res = ClearFileError("SeekError")
          /\ call.res = IoError => call.op \in {"new", "load", "load_or_new"}
          /\ LastStep \in {"set_len", "seek"} => call.op \in {"set", "modify"}
    /\ NoRetry(call.steps)

\* a set failed in its seek step, after the truncate
C11_Witness ==
    /\ call.op = "set" /\ Failed /\ LastStep = "seek"
    /\ call.steps = <<"set_len", "seek">>

\* C12: get(), *obj and as_ref() return the in-memory data and leave the
\* object (data, cursor, pretty flag) and the file (bytes, length) as they
\* were; a read that follows another read returns the same value
C12_IdempotentRead ==
    [][call'.op \in Reads =>
          /\ call'.res = Ok
          /\ call'.arg.v = obj.data
          /\ obj' = obj /\ fs' = fs
          /\ obj'.data = obj.data /\ obj'.cursor = obj.cursor
          /\ obj'.pretty = obj.pretty
          /\ fs'.bytes = fs.bytes /\ Len(fs'.bytes) = Len(fs.bytes)
          /\ call.op \in Reads => call'.arg.v = call.arg.v]_vars

\* *obj read a non-empty value on an object in pretty mode whose cursor is
\* not at the start of the file
C12_Witness ==
    /\ call.op = "deref" /\ obj.alive /\ call.arg.v = obj.data
    /\ Len(obj.data) > 0 /\ obj.cursor > 0 /\ obj.pretty

\* C13: in set and modify a truncate failure returns ClearFileError wrapping
\* SetLenError with the seek not attempted and the file as it was, a seek
\* failure returns ClearFileError wrapping SeekError with the file already
\* empty, the write is attempted in neither case, and a call that gets
\* further truncated first and rewound second, each once; no other
\* operation returns a ClearFileError
C13_ClearFileOrdering ==
    [][/\ call'.op \in {"set", "modify"} =>
             LET s == FileSteps(call'.steps)
             IN  /\ call'.res = ClearFileError("SetLenError") <=> s = <<"set_len">>
                 /\ call'.res = ClearFileError("SetLenError") =>
                       fs' = fs /\ obj'.cursor = obj.cursor
                 /\ call'.res = ClearFileError("SeekError") <=> s = <<"set_len", "seek">>
                 /\ call'.res = ClearFileError("SeekError") =>
                       fs'.bytes = <<>> /\ fs'.exists /\ obj'.cursor = obj.cursor
                 /\ call'.res \in {Ok, SerdeJsonError} =>
                       s = <<"set_len", "seek", "write">>
                 /\ call'.res \in {Ok, SerdeJsonError, ClearFileError("SetLenError"),
                                   ClearFileError("SeekError")}
       /\ call'.op \notin {"set", "modify"} =>
             /\ call'.res \notin {ClearFileError("SetLenError"),
                                  ClearFileError("SeekError")}
             /\ \A i \in 1..Len(call'.steps) :
                   call'.steps[i] \notin {"set_len", "seek"}]_vars

\* a modify on an object with a non-empty file failed in its seek step: the
\* file is empty and the write was not attempted
C13_Witness ==
    /\ call.op = "modify" /\ call.res = ClearFileError("SeekError")
    /\ call.wasSynced /\ fs.bytes = <<>>
    /\ call.steps = <<"f", "set_len", "seek">>

\* C14: a set that fails in the truncate step leaves the data, the file and
\* the cursor as they were, so a Synced object stays Synced; a set that fails
\* in the seek or the write step leaves the object Diverged, and a failed set
\* on a Synced object leaves it Diverged only then; a modify that fails in
\* the truncate step leaves the file as it was and the data changed by f, so
\* a Synced object is Diverged after it exactly when f changed the value
C14_FailedSetDivergence ==
    /\ obj.alive =>
          \A v \in Values :
              LET r == set(fs, obj, v, SetLenFault)
              IN  /\ r.res = ClearFileError("SetLenError")
                  /\ r.obj = obj /\ r.fs = fs
    /\ (call.op = "set" /\ FailedAt(call.res) = "set_len" /\ call.wasSynced) => Synced
    /\ (call.op = "set" /\ FailedAt(call.res) \in {"seek", "serde"}) => Diverged
    /\ (call.op = "set" /\ call.res # Ok /\ call.wasSynced /\ Diverged)
          => FailedAt(call.res) \in {"seek", "serde"}
    /\ Synced =>
          \A f \in Mutators :
              LET r == modify(fs, obj, f, SetLenFault)
              IN  /\ r.res = ClearFileError("SetLenError")
                  /\ r.fs = fs /\ r.obj.data = Apply(f, obj.data)
                  /\ r.obj.cursor = obj.cursor
                  /\ Apply(f, obj.data) # obj.data
                        <=> from_reader(r.fs.bytes) # Decoded(r.obj.data)
    /\ (call.op = "modify" /\ FailedAt(call.res) = "set_len" /\ call.wasSynced) =>
          LET d == from_reader(fs.bytes)
          IN  /\ d.ok /\ obj.data = Apply(FnOf(call.arg), d.value)
              /\ Diverged <=> obj.data # d.value

\* a set of a value other than the current one failed in the truncate step
\* on a Synced object, which is Synced still
C14_Witness ==
    /\ call.op = "set" /\ FailedAt(call.res) = "set_len"
    /\ call.wasSynced /\ Synced /\ call.arg.v # obj.data

\* C15: load decodes the same value and leaves the file alone whatever its
\* pretty argument; assigning the pretty field changes neither the data nor
\* the file; a successful set or modify leaves as the file the encoding of
\* the data in the mode the pretty field had when the call was made
C15_PrettyWriteTimeOnly ==
    [][/\ call'.op = "load" =>
             /\ fs' = fs
             /\ \A ft \in LoadFaults(fs) :
                   LET a == load(fs, Path, TRUE, ft)
                       b == load(fs, Path, FALSE, ft)
                   IN  /\ a.res = b.res /\ a.fs = fs /\ b.fs = fs
                       /\ a.obj.data = b.obj.data
                       /\ a.obj.alive => a.obj.pretty /\ ~b.obj.pretty
             /\ call'.res = Ok =>
                   obj'.data = load(fs, Path, ~obj'.pretty, NoFault).obj.data
       /\ call'.op = "pretty" =>
             /\ obj'.data = obj.data /\ obj'.cursor = obj.cursor
             /\ fs' = fs
       /\ (call'.op \in {"set", "modify"} /\ call'.res = Ok) =>
             /\ fs'.bytes = Serialize(obj'.data, obj.pretty)
             /\ obj'.pretty = obj.pretty]_vars

\* a set just wrote a non-empty value in pretty mode, and the file is not the
\* compact encoding
C15_Witness ==
    /\ Returned({"set"}) /\ obj.pretty /\ Len(obj.data) > 0
    /\ fs.bytes = to_writer_pretty(obj.data) /\ fs.bytes # to_writer(obj.data)

\* C16: when new passed the existence check and opened the file and its
\* write failed, new returned a serialization error and no object, the file
\* is there, empty or holding a proper prefix of the encoding, and on that
\* path a new fails with FileAlreadyExists and a load_or_new takes the load
\* branch, creating nothing
C16_FailedNewOccupiesPath ==
    (call.op = "new" /\ call.res = SerdeJsonError) =>
        /\ call.steps = <<"exists", "open", "write">>
        /\ ~obj.alive
        /\ fs.exists
        /\ \E p \in BOOLEAN : IsProperPrefix(fs.bytes, Serialize(call.arg.v, p))
        /\ \A v \in Values, p \in BOOLEAN :
              /\ \A ft \in NewFaults(fs, v, p) :
                    LET r == new(fs, Path, v, p, ft)
                    IN  r.res = FileAlreadyExists(Path) /\ r.fs = fs /\ r.obj = NoObj
              /\ \A ft \in LoadFaults(fs) :
                    LET r == load_or_new(fs, Path, v, p, ft)
                    IN  /\ r.steps[2] = "open" /\ "write" \notin
                              {r.steps[i] : i \in 1..Len(r.steps)}
                        /\ r.res \in {IoError, SerdeJsonError}
                        /\ r.fs = fs /\ r.obj = NoObj

\* a new failed after it wrote part of the encoding
C16_Witness ==
    /\ call.op = "new" /\ call.res = SerdeJsonError
    /\ fs.exists /\ Len(fs.bytes) > 0

\* C17: when an external process may create or delete the path between the
\* steps of a constructor, (a) the open of new empties a file created after
\* new's existence check, and what new leaves is its own encoding or a prefix
\* of it; (b) load_or_new returns FileAlreadyExists when the file is there at
\* the check of the new it calls; (c) load_or_new returns an I/O error when
\* the file is gone at the open of load; and the open of new meets an
\* existing file only if the external process created it after the check
C17_CheckThenOpen ==
    [][/\ (pending.pc = "new_open" /\ pending'.pc = "idle" /\ fs.exists) =>
             /\ call'.res \in {Ok, IoError, SerdeJsonError}
             /\ call'.res = IoError => fs' = fs
             /\ call'.res = Ok =>
                   /\ fs'.bytes = Serialize(pending.v, pending.pretty)
                   /\ pending'.lost = fs.bytes
             /\ call'.res = SerdeJsonError =>
                   IsProperPrefix(fs'.bytes, Serialize(pending.v, pending.pretty))
       /\ (pending.pc = "new_exists" /\ pending'.pc = "idle") =>
             /\ fs.exists /\ fs' = fs /\ obj' = obj
             /\ call'.op = "load_or_new"
             /\ call'.res = FileAlreadyExists(Path)
             /\ call'.steps = <<"exists", "exists">>
       /\ (pending.pc = "new_exists" /\ fs.exists) => pending.meddled = "created"
       /\ (pending.pc = "load_open" /\ pending'.pc = "idle" /\ ~fs.exists) =>
             /\ call'.op = "load_or_new" /\ call'.res = IoError
             /\ call'.steps = <<"exists", "open">>
             /\ fs' = fs /\ obj' = obj
       /\ (pending.pc = "load_open" /\ ~fs.exists) => pending.meddled = "deleted"
       /\ (pending.pc = "new_open" /\ fs.exists) => pending.meddled = "created"
       /\ (pending.pc = "new_open" /\ pending.meddled = "none") => ~fs.exists
       /\ pending.lost # <<>> => pending.meddled = "created"]_vars

\* new returned Ok after its open emptied a file that an external process
\* had created, with contents, after new's existence check
C17_Witness ==
    /\ call.op = "new" /\ call.res = Ok /\ obj.alive
    /\ pending.pc = "idle" /\ pending.meddled = "created"
    /\ pending.lost = <<"[", "1", "]", "\n">>
    /\ fs.bytes = Serialize(obj.data, obj.pretty)

\* the file decodes to the data of the second object
Synced2 == obj2.alive /\ from_reader(fs.bytes) = Decoded(obj2.data)

\* C18: with two objects over one path and no failing call, right after a
\* set or modify by either object the file is exactly the encoding of that
\* writer's data in the writer's mode, whatever the writer's cursor was, and
\* the other object agrees with the file exactly when its data equals the
\* writer's; no set or modify has failed
C18_LastWriterWins ==
    /\ call.op \in {"set", "modify"} =>
          /\ call.res = Ok
          /\ fs.bytes = Serialize(obj.data, obj.pretty)
          /\ obj.cursor = Len(fs.bytes)
          /\ obj2.alive => (Synced2 <=> obj2.data = obj.data)
    /\ call.op \in {"obj2.set", "obj2.modify"} =>
          /\ call.res = Ok
          /\ fs.bytes = Serialize(obj2.data, obj2.pretty)
          /\ obj2.cursor = Len(fs.bytes)
          /\ obj.alive => (Synced <=> obj.data = obj2.data)
    /\ ~failedBefore

\* the second object just set a shorter value than the first object wrote:
\* the first object is Diverged, its cursor is past the end of the file, and
\* no call on it has failed
C18_Witness ==
    /\ call.op = "obj2.set" /\ call.res = Ok /\ call.wasSynced
    /\ obj.alive /\ Diverged /\ ~failedBefore
    /\ obj.cursor > Len(fs.bytes)

====
